---- MODULE Spec2Model ----
(***************************************************************************)
(* Model of the /investor_analyze request handler, in its two locale       *)
(* variants: src/investor_analyze_zh.py (Simplified Chinese, "zh") and     *)
(* src/unnamed/part_000 (English, "en").                                   *)
(*                                                                         *)
(* Text is modelled as follows.                                            *)
(*  - A JSON value of the request body is a record [t, v]: t is the JSON   *)
(*    type ("null", "str", "num", "list") and v the payload as text.       *)
(*  - An HTML document is a sequence of tokens [tag, s, n]: s holds the    *)
(*    interpolated texts and n the interpolated integers of the fragment.  *)
(*  - The text returned by the completion service is a sequence of atoms:  *)
(*    " " (blank), "\n" (line break) or a word chunk.                      *)
(*  - Literals of the zh variant are written as ASCII glosses prefixed     *)
(*    with "zh:" (the module text is ASCII only).                          *)
(***************************************************************************)
EXTENDS Integers, Sequences, FiniteSets, TLC

VARIABLES
    variant,          \* which of the two source files is deployed: "zh" | "en"
    env,              \* process environment: which secrets are set
    client,           \* module global client          (zh 21, 25)
    SMTP_PASSWORD,    \* module global SMTP_PASSWORD   (zh 22, 26)
    today,            \* what datetime.today() reads during the request
    pc,               \* position of the request in investor_analyze
    body,             \* the POST body as received
    fields,           \* the 14 extracted locals (full_name .. email)
    age,              \* local age
    chart_metrics,    \* local chart_metrics
    chart_html,       \* local chart_html
    summary_html,     \* local summary_html
    tips_block,       \* local tips_block
    email_html,       \* local email_html
    tipsOutcome,      \* what the completion step met
    sendOutcome,      \* what send_email met
    completionCalls,  \* calls of client.chat.completions.create
    smtpCalls,        \* connections opened with smtplib.SMTP
    mailbox,          \* messages accepted by the mail transport
    status,           \* HTTP status of the result (0: none yet)
    response,         \* JSON body of the result
    completion,       \* what the completion service answered to the request
    parked            \* the locals of the request that is not running

vars == <<variant, env, client, SMTP_PASSWORD, today, pc, body, fields, age,
          chart_metrics, chart_html, summary_html, tips_block, email_html,
          tipsOutcome, sendOutcome, completionCalls, smtpCalls, mailbox,
          status, response, completion, parked>>

-----------------------------------------------------------------------------
(* Bounds *)

\* random.randint(a, b) is sampled at a, a + DrawStep, a + 2*DrawStep, .. and b
DrawStep == 20

-----------------------------------------------------------------------------
(* JSON values and Python's str() of them *)

JNull == [t |-> "null", v |-> ""]
JStr(s) == [t |-> "str", v |-> s]
JNum(s) == [t |-> "num", v |-> s]
JList(s) == [t |-> "list", v |-> s]

\* the default of every data.get(key, "N/A")
NA == JStr("N/A")

\* f"{x}" of a value decoded from JSON: None prints as "None", a string as
\* itself, a number as its digits, a one-string list as "['..']"
Str(x) ==
    CASE x.t = "null" -> "None"
      [] x.t = "str"  -> x.v
      [] x.t = "num"  -> x.v
      [] x.t = "list" -> "['" \o x.v \o "']"

\* dict keys must be hashable: a list is not
Hashable(x) == x.t # "list"

\* str.lower() on the strings used as challenge values
Lower(s) ==
    CASE s = "N/A" -> "n/a"
      [] s = "Need New Funding" -> "need new funding"
      [] s = "Win Family Offices" -> "win family offices"
      [] s = "zh:Win Family Offices" -> "zh:win family offices"
      [] OTHER -> s

\* html_body.encode('utf-8') fails on a lone surrogate (JSON "\ud800")
Surrogate == "<U+D800>"
Encodable(s) == s # Surrogate

-----------------------------------------------------------------------------
(* HTML tokens *)

Tok(tag, s, n) == [tag |-> tag, s |-> s, n |-> n]

-----------------------------------------------------------------------------
(* Module configuration (runs once, at import) *)

Locales == {"zh", "en"}

\* os.getenv gives None for a variable that is not set
None == "None"
EnvValues == {None, "secret"}

\* OpenAI(api_key=None) raises when the key is absent
OpenAIRaises(api_key) == api_key = None

\* try: client = OpenAI(..); SMTP_PASSWORD = os.getenv(..)
\* except Exception: client = None; SMTP_PASSWORD = None
module_configuration(e) ==
    IF OpenAIRaises(e.OPENAI_API_KEY)
    THEN [client |-> None, SMTP_PASSWORD |-> None]
    ELSE [client |-> "OpenAI", SMTP_PASSWORD |-> e.SMTP_PASSWORD]

\* Python truth value of None
Truthy(x) == x # None

-----------------------------------------------------------------------------
(* compute_age *)

Date(y, m, d) == [y |-> y, m |-> m, d |-> d]

\* the date strings of the request bodies that dateutil turns into a date
KnownDates == {"1990-05-15", "1990-11-05", "2000-02-29", "1985-12-31"}

DateOf(s) ==
    CASE s = "1990-05-15" -> Date(1990, 5, 15)
      [] s = "1990-11-05" -> Date(1990, 11, 5)
      [] s = "2000-02-29" -> Date(2000, 2, 29)
      [] s = "1985-12-31" -> Date(1985, 12, 31)

\* digit strings beyond the C integer range: dateutil documents OverflowError
OverflowDates == {"99999999999"}

\* dateutil.parser.parse: a date, or the exception it raises
parser_parse(x) ==
    IF x.t # "str" THEN [exc |-> "TypeError", date |-> Date(0, 0, 0)]
    ELSE IF x.v \in KnownDates THEN [exc |-> "", date |-> DateOf(x.v)]
    ELSE IF x.v \in OverflowDates THEN [exc |-> "OverflowError", date |-> Date(0, 0, 0)]
    ELSE [exc |-> "ValueError", date |-> Date(0, 0, 0)]

\* (a, b) < (c, d) on Python tuples
TupleLess(a, b, c, d) == a < c \/ (a = c /\ b < d)

\* result of compute_age: exc = "" and the returned value, or the exception
\* that leaves the function
compute_age(dob_str, now) ==
    LET p == parser_parse(dob_str)
        birth_date == p.date
    IN  IF p.exc = ""
        THEN [exc |-> "",
              v |-> now.y - birth_date.y
                    - (IF TupleLess(now.m, now.d, birth_date.m, birth_date.d) THEN 1 ELSE 0)]
        ELSE IF p.exc \in {"ValueError", "TypeError"}
        THEN [exc |-> "", v |-> 0]
        ELSE [exc |-> p.exc, v |-> 0]

-----------------------------------------------------------------------------
(* get_openai_response *)

IsSpace(a) == a \in {" ", "\n"}

RECURSIVE LStrip(_)
LStrip(t) == IF t # <<>> /\ IsSpace(Head(t)) THEN LStrip(Tail(t)) ELSE t

RECURSIVE RStrip(_)
RStrip(t) ==
    IF t # <<>> /\ IsSpace(t[Len(t)]) THEN RStrip(SubSeq(t, 1, Len(t) - 1)) ELSE t

\* str.strip()
Strip(t) == RStrip(LStrip(t))

\* index of the first line break of t, 0 when there is none
RECURSIVE FirstBreak(_, _)
FirstBreak(t, i) ==
    IF i > Len(t) THEN 0
    ELSE IF t[i] = "\n" THEN i
    ELSE FirstBreak(t, i + 1)

\* str.splitlines()
RECURSIVE SplitLines(_)
SplitLines(t) ==
    IF t = <<>> THEN <<>>
    ELSE LET i == FirstBreak(t, 1)
         IN  IF i = 0 THEN <<t>>
             ELSE <<SubSeq(t, 1, i - 1)>> \o SplitLines(SubSeq(t, i + 1, Len(t)))

\* what the completion service does with the one request: it answers with
\* a text, or the call raises
ServiceText(text) == [kind |-> "text", text |-> text]
ServiceError == [kind |-> "error", text |-> <<>>]

\* no call was made
NoAnswer == [kind |-> "none", text |-> <<>>]

\* a get_openai_response that calls the service again after an error
get_openai_response_Retry(cl, service) ==
    IF ~Truthy(cl)
    THEN [none |-> TRUE, text |-> <<>>, called |-> 0]
    ELSE IF service.kind = "text"
    THEN [none |-> FALSE, text |-> Strip(service.text), called |-> 1]
    ELSE [none |-> TRUE, text |-> <<>>, called |-> 2]

\* result of get_openai_response: none (None returned) or the stripped
\* text; called tells whether client.chat.completions.create ran
get_openai_response(cl, service) ==
    IF ~Truthy(cl)
    THEN [none |-> TRUE, text |-> <<>>, called |-> 0]
    ELSE IF service.kind = "text"
    THEN [none |-> FALSE, text |-> Strip(service.text), called |-> 1]
    ELSE [none |-> TRUE, text |-> <<>>, called |-> 1]

-----------------------------------------------------------------------------
(* generate_chart_metrics and generate_chart_html *)

\* the values random.randint(a, b) is taken to return
random_randint(a, b) == {v \in a..b : (v - a) % DrawStep = 0 \/ v = b}

\* the ranges with the second category's first slot taken from the first
SlotRange_Copied ==
    << << <<70, 90>>, <<65, 85>>, <<70, 90>> >>,
       << <<70, 90>>, <<60, 80>>, <<75, 90>> >>,
       << <<65, 85>>, <<65, 85>>, <<75, 90>> >> >>

\* the arguments of the nine random.randint calls, by category and slot
SlotRange ==
    << << <<70, 90>>, <<65, 85>>, <<70, 90>> >>,
       << <<70, 85>>, <<60, 80>>, <<75, 90>> >>,
       << <<65, 85>>, <<65, 85>>, <<75, 90>> >> >>

MetricTitles(loc) ==
    IF loc = "en"
    THEN <<"Market Positioning", "Investor Appeal", "Strategic Execution">>
    ELSE <<"zh:Market Positioning", "zh:Investor Appeal", "zh:Strategic Execution">>

MetricLabels(loc) ==
    IF loc = "en"
    THEN << <<"Brand Recall", "Client Fit Clarity", "Reputation Stickiness">>,
            <<"Narrative Confidence", "Scalability Model", "Proof of Trust">>,
            <<"Partnership Readiness", "Premium Channel Leverage", "Leadership Presence">> >>
    ELSE << <<"zh:Brand Recall", "zh:Client Fit", "zh:Reputation Stickiness">>,
            <<"zh:Narrative Confidence", "zh:Scalability Model", "zh:Proof of Trust">>,
            <<"zh:Partnership Readiness", "zh:Premium Channel", "zh:Leadership Presence">> >>

\* the values one category can get
CategoryValues(c) ==
    {<<a, b, d>> : a \in random_randint(SlotRange[c][1][1], SlotRange[c][1][2]),
                   b \in random_randint(SlotRange[c][2][1], SlotRange[c][2][2]),
                   d \in random_randint(SlotRange[c][3][1], SlotRange[c][3][2])}

Metric(loc, c, vals) ==
    [title |-> MetricTitles(loc)[c], labels |-> MetricLabels(loc)[c], values |-> vals]

\* every list generate_chart_metrics can return
generate_chart_metrics(loc) ==
    {<<Metric(loc, 1, v1), Metric(loc, 2, v2), Metric(loc, 3, v3)>> :
        v1 \in CategoryValues(1), v2 \in CategoryValues(2), v3 \in CategoryValues(3)}

colors == <<"#8C52FF", "#5E9CA0", "#F2A900">>

Min(a, b) == IF a < b THEN a ELSE b

\* the rows of one category: enumerate(zip(labels, values)), j from 0
ChartRows(metric) ==
    [j \in 1..Min(Len(metric.labels), Len(metric.values)) |->
        Tok("bar",
            <<metric.labels[j], colors[((j - 1) % Len(colors)) + 1]>>,
            <<metric.values[j], metric.values[j]>>)]

RECURSIVE generate_chart_html(_)
generate_chart_html(metrics) ==
    IF metrics = <<>> THEN <<>>
    ELSE <<Tok("chart_title", <<Head(metrics).title>>, <<>>)>>
         \o ChartRows(Head(metrics))
         \o <<Tok("br", <<>>, <<>>)>>
         \o generate_chart_html(Tail(metrics))

-----------------------------------------------------------------------------
(* build_dynamic_summary *)

\* keys of industry_map
IndustryKeys(loc) ==
    IF loc = "en"
    THEN {"Insurance", "Real Estate", "Finance", "Technology", "Manufacturing",
          "Education", "Healthcare"}
    ELSE {"zh:Insurance", "zh:Real Estate", "zh:Finance", "zh:Technology",
          "zh:Manufacturing", "zh:Education", "zh:Healthcare"}

\* keys of challenge_narrative_map
ChallengeKeys(loc) ==
    IF loc = "en"
    THEN {"Need New Funding", "Unclear Expansion Strategy",
          "Lack of Investor Confidence", "Weak Brand Positioning"}
    ELSE {"zh:Need New Funding", "zh:Unclear Expansion Strategy",
          "zh:Lack of Investor Confidence", "zh:Weak Brand Positioning"}

\* industry_map.get(industry, fallback): the phrase of a recognised key,
\* the fallback phrase around str(industry) otherwise
IndustryNarrative(loc, industry) ==
    IF industry.t = "str" /\ industry.v \in IndustryKeys(loc)
    THEN "industry phrase of " \o industry.v
    ELSE IF loc = "en" THEN "the field of " \o Str(industry)
    ELSE "zh:in the field of " \o Str(industry)

\* challenge_narrative_map.get(challenge, fallback); the en fallback is
\* built from challenge.lower()
ChallengeNarrative(loc, challenge) ==
    IF challenge.t = "str" /\ challenge.v \in ChallengeKeys(loc)
    THEN "challenge phrase of " \o challenge.v
    ELSE IF loc = "en"
    THEN "addressing the primary challenge of " \o Lower(Str(challenge))
    ELSE "zh:solving the main challenge of " \o Str(challenge)

\* opening_templates[i]: only the third template of each variant names age
OpeningTemplate(loc, i, a, experience, industry_narrative, country) ==
    Tok("opening",
        <<loc, Str(experience), industry_narrative, Str(country)>>,
        IF i = 3 THEN <<i, a>> ELSE <<i>>)

\* the exception build_dynamic_summary leaves with, "" when it returns:
\* dict.get needs a hashable key; the en variant evaluates challenge.lower()
\* before the lookup, whatever the key
SummaryRaises(loc, industry, challenge) ==
    IF ~Hashable(industry) THEN "TypeError"
    ELSE IF loc = "en" /\ challenge.t # "str" THEN "AttributeError"
    ELSE IF ~Hashable(challenge) THEN "TypeError"
    ELSE ""

\* a summary that takes the second and third value of the first category
\* in the other order
build_dynamic_summary_Swapped(loc, a, experience, industry, country, metrics, challenge, choice) ==
    LET brand == metrics[1].values[1]
        fit == metrics[1].values[3]
        stick == metrics[1].values[2]
        conf == metrics[2].values[1]
        scale == metrics[2].values[2]
        trust == metrics[2].values[3]
        partn == metrics[3].values[1]
        premium == metrics[3].values[2]
        leader == metrics[3].values[3]
    IN  IF SummaryRaises(loc, industry, challenge) # ""
        THEN [exc |-> SummaryRaises(loc, industry, challenge), html |-> <<>>]
        ELSE [exc |-> "",
              html |->
                << Tok("summary_heading", <<loc>>, <<>>),
                   OpeningTemplate(loc, choice, a, experience,
                                   IndustryNarrative(loc, industry), country),
                   Tok("p1", <<ChallengeNarrative(loc, challenge)>>, <<brand, fit, stick>>),
                   Tok("p2", <<Str(country)>>, <<conf, scale, trust>>),
                   Tok("p3", <<>>, <<partn, premium, leader>>),
                   Tok("p4", <<>>, <<>>) >>]

\* choice is the index random.choice picks among the three openings
build_dynamic_summary(loc, a, experience, industry, country, metrics, challenge, choice) ==
    LET brand == metrics[1].values[1]
        fit == metrics[1].values[2]
        stick == metrics[1].values[3]
        conf == metrics[2].values[1]
        scale == metrics[2].values[2]
        trust == metrics[2].values[3]
        partn == metrics[3].values[1]
        premium == metrics[3].values[2]
        leader == metrics[3].values[3]
    IN  IF SummaryRaises(loc, industry, challenge) # ""
        THEN [exc |-> SummaryRaises(loc, industry, challenge), html |-> <<>>]
        ELSE [exc |-> "",
              html |->
                << Tok("summary_heading", <<loc>>, <<>>),
                   OpeningTemplate(loc, choice, a, experience,
                                   IndustryNarrative(loc, industry), country),
                   Tok("p1", <<ChallengeNarrative(loc, challenge)>>, <<brand, fit, stick>>),
                   Tok("p2", <<Str(country)>>, <<conf, scale, trust>>),
                   Tok("p3", <<>>, <<partn, premium, leader>>),
                   Tok("p4", <<>>, <<>>) >>]

-----------------------------------------------------------------------------
(* Fragments composed by investor_analyze *)

\* the 14 recognised keys, in the order of the data.get calls
Keys == <<"fullName", "chineseName", "dob", "contactNumber", "company", "role",
          "country", "experience", "industry", "challenge", "context",
          "targetProfile", "advisor", "email">>

KeySet == {Keys[i] : i \in 1..Len(Keys)}

\* the keys in the order of the lines of details_html
DetailKeys == <<"fullName", "chineseName", "dob", "contactNumber", "country",
                "company", "role", "experience", "industry", "challenge",
                "context", "targetProfile", "advisor", "email">>

\* dict.get(key, default): the stored value when the key is present (a JSON
\* null is stored as None), the default only when the key is absent
Get(data, key, default) == IF key \in DOMAIN data THEN data[key] ELSE default

title(loc) == <<Tok("title", <<loc>>, <<>>)>>

footer(loc) == <<Tok("footer", <<loc>>, <<>>)>>

TipsFallback(loc) == <<Tok("tips_fallback", <<loc>>, <<>>)>>

\* paragraphs that hold the line as received, not its strip()
RECURSIVE TipParagraphs_NoStrip(_)
TipParagraphs_NoStrip(lines) ==
    IF lines = <<>> THEN <<>>
    ELSE (IF Strip(Head(lines)) # <<>>
          THEN <<Tok("tip", Head(lines), <<>>)>>
          ELSE <<>>)
         \o TipParagraphs_NoStrip(Tail(lines))

\* one paragraph per line whose strip() is not empty, holding the stripped line
RECURSIVE TipParagraphs(_)
TipParagraphs(lines) ==
    IF lines = <<>> THEN <<>>
    ELSE (IF Strip(Head(lines)) # <<>>
          THEN <<Tok("tip", Strip(Head(lines)), <<>>)>>
          ELSE <<>>)
         \o TipParagraphs(Tail(lines))

\* lines 183-188 of the zh variant: tips_text is the result of
\* get_openai_response
TipsBlock(loc, tips_text) ==
    IF ~tips_text.none /\ tips_text.text # <<>>
    THEN <<Tok("tips_heading", <<loc>>, <<>>)>> \o TipParagraphs(SplitLines(tips_text.text))
    ELSE TipsFallback(loc)

details_html(loc, f) ==
    <<Tok("details_heading", <<loc>>, <<>>)>>
    \o [i \in 1..Len(DetailKeys) |-> Tok("detail", <<DetailKeys[i], Str(f[DetailKeys[i]])>>, <<>>)]
    \o <<Tok("hr", <<>>, <<>>)>>

EmailHeading(loc) == <<Tok("email_heading", <<loc>>, <<>>)>>

Subject(loc, full_name) ==
    (IF loc = "en" THEN "New Investor Insight: " ELSE "zh:New Investor Insight: ")
    \o Str(full_name)

DisplayHtml(loc, chart, summary, tips) ==
    title(loc) \o chart \o summary \o tips \o footer(loc)

\* an email composed before the tips block was ready
EmailHtml_StaleTips(loc, f, chart, summary, tips) ==
    EmailHeading(loc) \o details_html(loc, f) \o title(loc) \o chart \o summary
    \o TipsFallback(loc) \o footer(loc)

EmailHtml(loc, f, chart, summary, tips) ==
    EmailHeading(loc) \o details_html(loc, f) \o title(loc) \o chart \o summary
    \o tips \o footer(loc)

-----------------------------------------------------------------------------
(* send_email *)

SMTP_USERNAME == "kata.chatbot@gmail.com"

\* what the mail transport does with the one connection
Transports == {"ok", "connect_error", "login_error", "send_error"}

\* MIMEText(html_body, 'html', 'utf-8') encodes the body
EncodableDoc(doc) ==
    \A i \in 1..Len(doc) : \A j \in 1..Len(doc[i].s) : Encodable(doc[i].s[j])

\* a send_email that builds the message inside the SMTP session
send_email_EncodeLate(password, html_body, subject, transport) ==
    IF ~Truthy(password)
    THEN [exc |-> "", opened |-> 0, accepted |-> <<>>, outcome |-> "not_configured"]
    ELSE IF transport = "ok" /\ EncodableDoc(html_body)
    THEN [exc |-> "", opened |-> 1,
          accepted |-> <<[Subject |-> subject, From |-> SMTP_USERNAME,
                          To |-> SMTP_USERNAME, payload |-> html_body]>>,
          outcome |-> "ok"]
    ELSE IF transport = "ok"
    THEN [exc |-> "UnicodeEncodeError", opened |-> 1, accepted |-> <<>>,
          outcome |-> "encode_error"]
    ELSE [exc |-> "", opened |-> 1, accepted |-> <<>>, outcome |-> transport]

\* a send_email without the try around the SMTP session
send_email_Propagates(password, html_body, subject, transport) ==
    IF ~Truthy(password)
    THEN [exc |-> "", opened |-> 0, accepted |-> <<>>, outcome |-> "not_configured"]
    ELSE IF ~EncodableDoc(html_body)
    THEN [exc |-> "UnicodeEncodeError", opened |-> 0, accepted |-> <<>>,
          outcome |-> "encode_error"]
    ELSE IF transport = "ok"
    THEN [exc |-> "", opened |-> 1,
          accepted |-> <<[Subject |-> subject, From |-> SMTP_USERNAME,
                          To |-> SMTP_USERNAME, payload |-> html_body]>>,
          outcome |-> "ok"]
    ELSE [exc |-> "SMTPException", opened |-> 1, accepted |-> <<>>, outcome |-> transport]

\* result of send_email: the exception that leaves it ("" when it returns),
\* the number of SMTP connections opened and the messages accepted
send_email(password, html_body, subject, transport) ==
    IF ~Truthy(password)
    THEN [exc |-> "", opened |-> 0, accepted |-> <<>>, outcome |-> "not_configured"]
    ELSE IF ~EncodableDoc(html_body)
    THEN [exc |-> "UnicodeEncodeError", opened |-> 0, accepted |-> <<>>,
          outcome |-> "encode_error"]
    ELSE IF transport = "ok"
    THEN [exc |-> "", opened |-> 1,
          accepted |-> <<[Subject |-> subject, From |-> SMTP_USERNAME,
                          To |-> SMTP_USERNAME, payload |-> html_body]>>,
          outcome |-> "ok"]
    ELSE [exc |-> "", opened |-> 1, accepted |-> <<>>, outcome |-> transport]

-----------------------------------------------------------------------------
(* Results of the handler *)

NoResponse == [kind |-> "none", html |-> <<>>, error |-> ""]

\* return jsonify({"html_result": display_html})
OkResult(display_html) ==
    [status |-> 200, json |-> [kind |-> "html_result", html |-> display_html, error |-> ""]]

\* a handler that lets the framework answer a BadRequest with its own status
ErrorResult_BadRequest(exc) ==
    [status |-> IF exc = "BadRequest" THEN 400 ELSE 500,
     json |-> [kind |-> "error", html |-> <<>>,
               error |-> "An internal server error occurred."]]

\* except Exception: return jsonify({"error": ...}), 500
ErrorResult(exc) ==
    [status |-> 500,
     json |-> [kind |-> "error", html |-> <<>>,
               error |-> "An internal server error occurred."]]

-----------------------------------------------------------------------------
(* Inputs *)

Obj(data) == [kind |-> "object", data |-> data]

\* a body that is not JSON: request.get_json(force=True) raises BadRequest
InvalidBody == [kind |-> "invalid", data |-> <<>>]

\* a JSON document that is not an object (an array): it has no .get
NonObjectBody == [kind |-> "nonobject", data |-> <<>>]

EmptyBody == Obj(<<>>)

LocStr(loc, s) == IF loc = "en" THEN s ELSE "zh:" \o s

FullBody(loc) ==
    Obj([fullName |-> JStr("Alice Tan"), chineseName |-> JStr("Chen Li"),
         dob |-> JStr("1990-05-15"), contactNumber |-> JStr("+65 1234"),
         company |-> JStr("Acme"), role |-> JStr("CEO"),
         country |-> JStr("Singapore"), experience |-> JStr("10"),
         industry |-> JStr(LocStr(loc, "Technology")),
         challenge |-> JStr(LocStr(loc, "Need New Funding")),
         context |-> JStr("ctx"), targetProfile |-> JStr("angels"),
         advisor |-> JStr("Bob"), email |-> JStr("alice@example.com")])

\* null values and an unrecognised challenge
NullsBody ==
    Obj([fullName |-> JNull, dob |-> JNull, industry |-> JNull,
         country |-> JStr("Malaysia"), challenge |-> JStr("Win Family Offices")])

\* values of the wrong type and an unrecognised industry
MalformedBody ==
    Obj([dob |-> JNum("19900515"), experience |-> JNum("12"),
         industry |-> JStr("Space Mining"), challenge |-> JNum("5")])

ListIndustryBody == Obj([industry |-> JList("Technology")])

OverflowDobBody == Obj([dob |-> JStr("99999999999")])

SurrogateNameBody == Obj([fullName |-> JStr(Surrogate), dob |-> JStr("1990-11-05")])

Bodies(loc) ==
    {InvalidBody, NonObjectBody, EmptyBody, FullBody(loc), NullsBody,
     MalformedBody, ListIndustryBody, OverflowDobBody, SurrogateNameBody}

\* the texts the completion service answers with
CompletionTexts ==
    { <<"Tip one", "\n", "\n", "Tip two", "\n", "Tip three">>,
      <<" ", "\n", " ">> }

Services == {ServiceText(t) : t \in CompletionTexts} \cup {ServiceError}

Environments == [OPENAI_API_KEY : EnvValues, SMTP_PASSWORD : EnvValues]

\* the clock of the request
RequestDay == Date(2026, 11, 5)

-----------------------------------------------------------------------------
(* The process after import, waiting for a request *)

\* the locals of a request that has not started
IdleFrame ==
    [pc |-> "idle", body |-> EmptyBody, fields |-> <<>>, age |-> 0,
     chart_metrics |-> <<>>, chart_html |-> <<>>, summary_html |-> <<>>,
     tips_block |-> <<>>, email_html |-> <<>>, tipsOutcome |-> "none",
     sendOutcome |-> "none", completionCalls |-> 0, smtpCalls |-> 0,
     status |-> 0, response |-> NoResponse, completion |-> NoAnswer]

Init ==
    /\ variant \in Locales
    /\ env \in Environments
    /\ client = module_configuration(env).client
    /\ SMTP_PASSWORD = module_configuration(env).SMTP_PASSWORD
    /\ today = RequestDay
    /\ pc = "idle"
    /\ body = EmptyBody
    /\ fields = <<>>
    /\ age = 0
    /\ chart_metrics = <<>>
    /\ chart_html = <<>>
    /\ summary_html = <<>>
    /\ tips_block = <<>>
    /\ email_html = <<>>
    /\ tipsOutcome = "none"
    /\ sendOutcome = "none"
    /\ completionCalls = 0
    /\ smtpCalls = 0
    /\ mailbox = <<>>
    /\ status = 0
    /\ response = NoResponse
    /\ completion = NoAnswer
    /\ parked = IdleFrame

\* the handler's except clause: the request ends with ErrorResult
Raise(exc) ==
    /\ pc' = "done"
    /\ status' = ErrorResult(exc).status
    /\ response' = ErrorResult(exc).json

config == <<variant, env, client, SMTP_PASSWORD, today>>

\* a POST arrives, with one of the given bodies
ReceiveFrom(bodies) ==
    /\ pc = "idle"
    /\ \E b \in bodies : body' = b
    /\ pc' = "extract"
    /\ UNCHANGED <<config, parked, completion, fields, age, chart_metrics, chart_html, summary_html,
                   tips_block, email_html, tipsOutcome, sendOutcome,
                   completionCalls, smtpCalls, mailbox, status, response>>

Receive == ReceiveFrom(Bodies(variant))

\* the exception of request.get_json(force=True) and of the first data.get
ExtractRaises(b) ==
    IF b.kind = "invalid" THEN "BadRequest"
    ELSE IF b.kind = "nonobject" THEN "AttributeError"
    ELSE ""

\* the 14 data.get(key, "N/A")
ExtractFields(data) == [k \in KeySet |-> Get(data, k, NA)]

Extract ==
    /\ pc = "extract"
    /\ IF ExtractRaises(body) # ""
       THEN /\ Raise(ExtractRaises(body))
            /\ UNCHANGED fields
       ELSE /\ fields' = ExtractFields(body.data)
            /\ pc' = "age"
            /\ UNCHANGED <<status, response>>
    /\ UNCHANGED <<config, parked, completion, body, age, chart_metrics, chart_html, summary_html,
                   tips_block, email_html, tipsOutcome, sendOutcome,
                   completionCalls, smtpCalls, mailbox>>

ComputeAge ==
    /\ pc = "age"
    /\ LET r == compute_age(fields["dob"], today)
       IN  IF r.exc # ""
           THEN /\ Raise(r.exc)
                /\ UNCHANGED age
           ELSE /\ age' = r.v
                /\ pc' = "metrics"
                /\ UNCHANGED <<status, response>>
    /\ UNCHANGED <<config, parked, completion, body, fields, chart_metrics, chart_html, summary_html,
                   tips_block, email_html, tipsOutcome, sendOutcome,
                   completionCalls, smtpCalls, mailbox>>

\* chart_metrics = generate_chart_metrics(), with one of the given draws
GenerateMetricsFrom(draws) ==
    /\ pc = "metrics"
    /\ \E m \in draws : chart_metrics' = m
    /\ pc' = "render"
    /\ UNCHANGED <<config, parked, completion, body, fields, age, chart_html, summary_html,
                   tips_block, email_html, tipsOutcome, sendOutcome,
                   completionCalls, smtpCalls, mailbox, status, response>>

GenerateMetrics == GenerateMetricsFrom(generate_chart_metrics(variant))

\* title, chart_html and summary_html
Render ==
    /\ pc = "render"
    /\ chart_html' = generate_chart_html(chart_metrics)
    /\ \E choice \in 1..3 :
         LET r == build_dynamic_summary(variant, age, fields["experience"],
                                        fields["industry"], fields["country"],
                                        chart_metrics, fields["challenge"], choice)
         IN  IF r.exc # ""
             THEN /\ Raise(r.exc)
                  /\ UNCHANGED summary_html
             ELSE /\ summary_html' = r.html
                  /\ pc' = "tips"
                  /\ UNCHANGED <<status, response>>
    /\ UNCHANGED <<config, parked, completion, body, fields, age, chart_metrics,
                   tips_block, email_html, tipsOutcome, sendOutcome,
                   completionCalls, smtpCalls, mailbox>>

\* what the completion step met
TipsOutcomeOf(cl, service, tips_text) ==
    IF ~Truthy(cl) THEN "not_initialised"
    ELSE IF service.kind = "error" THEN "error"
    ELSE IF tips_text.text = <<>> THEN "empty"
    ELSE "text"

\* prompt, get_openai_response and tips_block, with the service behaving in
\* one of the given ways
TipsWith(services) ==
    /\ pc = "tips"
    /\ \E service \in services :
         LET tips_text == get_openai_response(client, service)
         IN  /\ completionCalls' = completionCalls + tips_text.called
             /\ completion' = (IF tips_text.called > 0 THEN service ELSE NoAnswer)
             /\ tips_block' = TipsBlock(variant, tips_text)
             /\ tipsOutcome' = TipsOutcomeOf(client, service, tips_text)
    /\ pc' = "email"
    /\ UNCHANGED <<config, parked, body, fields, age, chart_metrics, chart_html,
                   summary_html, email_html, sendOutcome, smtpCalls, mailbox,
                   status, response>>

Tips == TipsWith(Services)

\* an email step that switches the mail send off for the process after a
\* failed SMTP session
EmailAndRespond_DisablesMail ==
    /\ pc = "email"
    /\ email_html' = EmailHtml(variant, fields, chart_html, summary_html, tips_block)
    /\ \E transport \in Transports :
         LET r == send_email(SMTP_PASSWORD, email_html',
                             Subject(variant, fields["fullName"]), transport)
         IN  /\ smtpCalls' = smtpCalls + r.opened
             /\ mailbox' = mailbox \o r.accepted
             /\ sendOutcome' = r.outcome
             /\ SMTP_PASSWORD' = (IF r.opened = 1 /\ r.accepted = <<>>
                                  THEN None ELSE SMTP_PASSWORD)
             /\ IF r.exc # ""
                THEN Raise(r.exc)
                ELSE /\ pc' = "done"
                     /\ status' = OkResult(DisplayHtml(variant, chart_html, summary_html,
                                                       tips_block)).status
                     /\ response' = OkResult(DisplayHtml(variant, chart_html, summary_html,
                                                         tips_block)).json
    /\ UNCHANGED <<variant, env, client, today, parked, completion, body, fields, age,
                   chart_metrics, chart_html, summary_html, tips_block, tipsOutcome,
                   completionCalls>>

\* footer, details_html, email_html, send_email, display_html and the result
EmailAndRespond ==
    /\ pc = "email"
    /\ email_html' = EmailHtml(variant, fields, chart_html, summary_html, tips_block)
    /\ \E transport \in Transports :
         LET r == send_email(SMTP_PASSWORD, email_html',
                             Subject(variant, fields["fullName"]), transport)
         IN  /\ smtpCalls' = smtpCalls + r.opened
             /\ mailbox' = mailbox \o r.accepted
             /\ sendOutcome' = r.outcome
             /\ IF r.exc # ""
                THEN Raise(r.exc)
                ELSE /\ pc' = "done"
                     /\ status' = OkResult(DisplayHtml(variant, chart_html, summary_html,
                                                       tips_block)).status
                     /\ response' = OkResult(DisplayHtml(variant, chart_html, summary_html,
                                                         tips_block)).json
    /\ UNCHANGED <<config, parked, completion, body, fields, age, chart_metrics, chart_html,
                   summary_html, tips_block, tipsOutcome, completionCalls>>

Next ==
    \/ Receive
    \/ Extract
    \/ ComputeAge
    \/ GenerateMetrics
    \/ Render
    \/ Tips
    \/ EmailAndRespond

Spec == Init /\ [][Next]_vars

-----------------------------------------------------------------------------
(* compute_age on its own: the request stands before line 170 with one of  *)
(* the dob values below, under one of the clock readings below             *)

DobBodies ==
    {EmptyBody, Obj([dob |-> JNull]), Obj([dob |-> JNum("19900515")]),
     Obj([dob |-> JList("1990-05-15")]), Obj([dob |-> JStr("not a date")]),
     Obj([dob |-> JStr("N/A")]), Obj([dob |-> JStr("99999999999")]),
     Obj([dob |-> JStr("1990-05-15")]), Obj([dob |-> JStr("1990-11-05")]),
     Obj([dob |-> JStr("2000-02-29")]), Obj([dob |-> JStr("1985-12-31")])}

Todays ==
    {Date(2026, 11, 5), Date(2026, 11, 4), Date(2026, 5, 15), Date(2026, 5, 14),
     Date(2026, 2, 28), Date(2026, 3, 1), Date(2026, 12, 31), Date(2027, 1, 1)}

InitAge ==
    /\ variant \in Locales
    /\ env = [OPENAI_API_KEY |-> "secret", SMTP_PASSWORD |-> "secret"]
    /\ client = module_configuration(env).client
    /\ SMTP_PASSWORD = module_configuration(env).SMTP_PASSWORD
    /\ today \in Todays
    /\ pc = "age"
    /\ body \in DobBodies
    /\ fields = ExtractFields(body.data)
    /\ age = 0
    /\ chart_metrics = <<>>
    /\ chart_html = <<>>
    /\ summary_html = <<>>
    /\ tips_block = <<>>
    /\ email_html = <<>>
    /\ tipsOutcome = "none"
    /\ sendOutcome = "none"
    /\ completionCalls = 0
    /\ smtpCalls = 0
    /\ mailbox = <<>>
    /\ status = 0
    /\ response = NoResponse
    /\ completion = NoAnswer
    /\ parked = IdleFrame

NextAge == ComputeAge

SpecAge == InitAge /\ [][NextAge]_vars

-----------------------------------------------------------------------------
(* The tips step on its own: the request of a full body stands before line *)
(* 182 and the completion service answers with any text of the atoms below *)

\* longest text the service answers with
MaxTextLen == 4

TextAtoms == {" ", "\n", "Tip one", "Tip two"}

BoundedTexts == UNION {[1..n -> TextAtoms] : n \in 0..MaxTextLen} \cup CompletionTexts

TextServices == {ServiceText(t) : t \in BoundedTexts}

\* the lowest value of every slot
LowMetrics(loc) ==
    <<Metric(loc, 1, <<70, 65, 70>>), Metric(loc, 2, <<70, 60, 75>>),
      Metric(loc, 3, <<65, 65, 75>>)>>

InitTips ==
    /\ variant \in Locales
    /\ env = [OPENAI_API_KEY |-> "secret", SMTP_PASSWORD |-> "secret"]
    /\ client = module_configuration(env).client
    /\ SMTP_PASSWORD = module_configuration(env).SMTP_PASSWORD
    /\ today = RequestDay
    /\ pc = "tips"
    /\ body = FullBody(variant)
    /\ fields = ExtractFields(body.data)
    /\ age = compute_age(fields["dob"], today).v
    /\ chart_metrics = LowMetrics(variant)
    /\ chart_html = generate_chart_html(chart_metrics)
    /\ summary_html = build_dynamic_summary(variant, age, fields["experience"],
                                            fields["industry"], fields["country"],
                                            chart_metrics, fields["challenge"], 1).html
    /\ tips_block = <<>>
    /\ email_html = <<>>
    /\ tipsOutcome = "none"
    /\ sendOutcome = "none"
    /\ completionCalls = 0
    /\ smtpCalls = 0
    /\ mailbox = <<>>
    /\ status = 0
    /\ response = NoResponse
    /\ completion = NoAnswer
    /\ parked = IdleFrame

NextTips == TipsWith(TextServices)

SpecTips == InitTips /\ [][NextTips]_vars

-----------------------------------------------------------------------------
(* Two requests in one process: the server runs one of them at a time and  *)
(* may switch to the other between any two steps                           *)

\* the locals of the running request
Running ==
    [pc |-> pc, body |-> body, fields |-> fields, age |-> age,
     chart_metrics |-> chart_metrics, chart_html |-> chart_html,
     summary_html |-> summary_html, tips_block |-> tips_block,
     email_html |-> email_html, tipsOutcome |-> tipsOutcome,
     sendOutcome |-> sendOutcome, completionCalls |-> completionCalls,
     smtpCalls |-> smtpCalls, status |-> status, response |-> response,
     completion |-> completion]

\* the server switches to the other request: each keeps its own locals, the
\* module globals and the mail transport are the same for both
Switch ==
    /\ parked' = Running
    /\ pc' = parked.pc
    /\ body' = parked.body
    /\ fields' = parked.fields
    /\ age' = parked.age
    /\ chart_metrics' = parked.chart_metrics
    /\ chart_html' = parked.chart_html
    /\ summary_html' = parked.summary_html
    /\ tips_block' = parked.tips_block
    /\ email_html' = parked.email_html
    /\ tipsOutcome' = parked.tipsOutcome
    /\ sendOutcome' = parked.sendOutcome
    /\ completionCalls' = parked.completionCalls
    /\ smtpCalls' = parked.smtpCalls
    /\ status' = parked.status
    /\ response' = parked.response
    /\ completion' = parked.completion
    /\ UNCHANGED <<config, mailbox>>

\* the highest value of every slot
HighMetrics(loc) ==
    <<Metric(loc, 1, <<90, 85, 90>>), Metric(loc, 2, <<85, 80, 90>>),
      Metric(loc, 3, <<85, 85, 90>>)>>

\* the bodies and draws of the two requests
ConcBodies(loc) == {InvalidBody, EmptyBody, FullBody(loc)}

ConcDraws(loc) == {LowMetrics(loc), HighMetrics(loc)}

NextConc ==
    \/ ReceiveFrom(ConcBodies(variant))
    \/ Extract
    \/ ComputeAge
    \/ GenerateMetricsFrom(ConcDraws(variant))
    \/ Render
    \/ Tips
    \/ EmailAndRespond
    \/ Switch

SpecConc == Init /\ [][NextConc]_vars

-----------------------------------------------------------------------------
(* Claims *)

Finished == pc = "done"

ErrorBody == [kind |-> "error", html |-> <<>>, error |-> "An internal server error occurred."]

Composed == title(variant) \o chart_html \o summary_html \o tips_block \o footer(variant)

\* C1: a request ends with exactly one of two results, status 200 with the
\* complete html_result or status 500 with the fixed error body that holds
\* no HTML; before the end there is no result, and no other status occurs.
C1_TwoResults ==
    /\ status \in {0, 200, 500}
    /\ ~Finished => status = 0 /\ response = NoResponse
    /\ Finished =>
         \/ /\ status = 200
            /\ response = [kind |-> "html_result", html |-> Composed, error |-> ""]
            /\ chart_html # <<>> /\ summary_html # <<>> /\ tips_block # <<>>
         \/ /\ status = 500
            /\ response = ErrorBody

\* a request that fails at the last step, with all the HTML generated
C1_Witness ==
    /\ Finished /\ status = 500 /\ sendOutcome = "encode_error"
    /\ tips_block # <<>> /\ response.html = <<>>

DetailTags == {"email_heading", "details_heading", "detail", "hr"}

\* C2: on success the response document is title + charts + narrative +
\* tips + footer without any token of the details block, and the email
\* document is the submission heading and the 14 labelled fields followed
\* by exactly the response document.
C2_Documents ==
    Finished /\ status = 200 =>
        /\ response.html = Composed
        /\ \A i \in 1..Len(response.html) : response.html[i].tag \notin DetailTags
        /\ email_html = EmailHeading(variant) \o details_html(variant, fields) \o response.html
        /\ {i \in 1..Len(email_html) : email_html[i].tag = "detail"} = 3..16
        /\ {email_html[i].s[1] : i \in 3..16} = KeySet
        /\ \A i \in 1..Len(mailbox) : mailbox[i].payload = email_html

\* a successful request whose email was delivered, with generated tips
C2_Witness ==
    /\ Finished /\ status = 200 /\ sendOutcome = "ok" /\ tipsOutcome = "text"
    /\ Len(mailbox) = 1 /\ body = FullBody(variant)

SwallowedSendFailures == {"not_configured", "connect_error", "login_error", "send_error"}

C4_TipsFallback ==
    tipsOutcome \in {"error", "not_initialised", "empty"} =>
        /\ tips_block = TipsFallback(variant)
        /\ Finished => status = 200

\* C5 as stated: every request calls the completion service once and the
\* mail transport once.
C5_ExactlyOnce == Finished => completionCalls = 1 /\ smtpCalls = 1

\* C5 amended: neither external call is made twice; a request that ends
\* with status 200 has called the completion service once when the client
\* is initialised and not at all otherwise, and has opened one SMTP
\* connection when SMTP_PASSWORD is set and none otherwise.
C5_AtMostOnce ==
    /\ completionCalls <= 1
    /\ smtpCalls <= 1
    /\ Finished /\ status = 200 =>
         /\ completionCalls = (IF Truthy(client) THEN 1 ELSE 0)
         /\ smtpCalls = (IF Truthy(SMTP_PASSWORD) THEN 1 ELSE 0)

\* a request whose two external calls both failed
C5_Witness ==
    /\ Finished /\ tipsOutcome = "error" /\ sendOutcome = "connect_error"
    /\ completionCalls = 1 /\ smtpCalls = 1

\* the value C6 gives a key
Expected(data, k) == IF k \in DOMAIN data /\ data[k] # JNull THEN data[k] ELSE NA

\* C6: extraction of a JSON object yields the 14 keys, each with the
\* submitted value, or "N/A" when the key is missing or null; with an
\* empty object every field is rendered as "N/A" in both documents.
C6_Extraction ==
    /\ body.kind = "object" /\ pc \notin {"idle", "extract"} =>
         /\ DOMAIN fields = KeySet
         /\ \A k \in KeySet : fields[k] = Expected(body.data, k)
    /\ body = EmptyBody /\ Finished =>
         /\ status = 200
         /\ \A i \in 3..16 : email_html[i].s[2] = "N/A"
         /\ response.html[18].s[2] = "N/A" /\ response.html[18].s[4] = "N/A"
         /\ response.html[18].s[3] \in {"the field of N/A", "zh:in the field of N/A"}
         /\ response.html[19].s[1] \in {"addressing the primary challenge of N/A",
                                         "zh:solving the main challenge of N/A"}

\* C7: a POST whose body is a JSON object never ends with status 500.
C7_NoInputRejected == Finished /\ body.kind = "object" => status = 200

\* C8: each collaborator is live exactly when its own secret is set: the
\* client when the API key is set, the mail send when the mail password is.
C8_SecretsIndependent ==
    /\ Truthy(client) <=> env.OPENAI_API_KEY # None
    /\ Truthy(SMTP_PASSWORD) <=> env.SMTP_PASSWORD # None
    /\ Finished /\ status = 200 =>
         /\ env.OPENAI_API_KEY = None => tips_block = TipsFallback(variant)
         /\ smtpCalls = (IF env.SMTP_PASSWORD # None THEN 1 ELSE 0)

\* generate_chart_metrics has returned (an earlier failure leaves no metrics)
MetricsDrawn == pc \in {"render", "tips", "email"} \/ (Finished /\ chart_metrics # <<>>)

\* C9: the metrics are 3 categories in the fixed order, each with 3 labels
\* and 3 integer values, every value within the range of its slot.
C9_MetricsInRange ==
    MetricsDrawn =>
        /\ Len(chart_metrics) = 3
        /\ <<chart_metrics[1].title, chart_metrics[2].title, chart_metrics[3].title>>
             = MetricTitles(variant)
        /\ \A c \in 1..3 : Len(chart_metrics[c].labels) = 3 /\ Len(chart_metrics[c].values) = 3
        /\ chart_metrics[1].values \in (70..90) \X (65..85) \X (70..90)
        /\ chart_metrics[2].values \in (70..85) \X (60..80) \X (75..90)
        /\ chart_metrics[3].values \in (65..85) \X (65..85) \X (75..90)

\* a request whose second category drew the upper, lower and upper end
C9_Witness == Finished /\ status = 200 /\ chart_metrics[2].values = <<85, 60, 90>>

AgeStepTaken == pc \notin {"idle", "extract", "age"}

\* C10: compute_age never fails the request; it returns the calendar age
\* for a date, and 0 for every input the parser does not turn into a date.
C10_ComputeAgeTotal ==
    AgeStepTaken =>
        /\ status # 500
        /\ LET p == parser_parse(fields["dob"])
           IN  IF p.exc = ""
               THEN age = today.y - p.date.y
                          - (IF today.m < p.date.m
                                \/ (today.m = p.date.m /\ today.d < p.date.d)
                             THEN 1 ELSE 0)
               ELSE age = 0

\* the tips step has run
TipsDone == pc = "email" \/ (Finished /\ tipsOutcome # "none")

\* the positions in front of the lines of raw: 0 and every line break
LineStarts(raw) == {0} \cup {i \in 1..Len(raw) : raw[i] = "\n"}

\* the positions of the line that starts after b
LineOf(raw, b) ==
    {i \in (b + 1)..Len(raw) : \A j \in (b + 1)..i : raw[j] # "\n"}

\* the positions of the line after b that hold neither blank nor break
Inked(raw, b) == {i \in LineOf(raw, b) : raw[i] # " "}

\* the starts of the lines that are not blank
NonBlankStarts(raw) == {b \in LineStarts(raw) : Inked(raw, b) # {}}

Lowest(S) == CHOOSE x \in S : \A y \in S : x <= y
Highest(S) == CHOOSE x \in S : \A y \in S : y <= x

\* the k-th line of raw that is not blank, from its first to its last
\* inked position
NonBlankLine(raw, k) ==
    LET b == CHOOSE c \in NonBlankStarts(raw) :
                 Cardinality({d \in NonBlankStarts(raw) : d < c}) = k - 1
    IN  SubSeq(raw, Lowest(Inked(raw, b)), Highest(Inked(raw, b)))

\* the heading and one paragraph per non-blank line of raw, in order
ParagraphPerLine(raw) ==
    /\ Len(tips_block) = 1 + Cardinality(NonBlankStarts(raw))
    /\ Len(tips_block) >= 2
    /\ tips_block[1] = Tok("tips_heading", <<variant>>, <<>>)
    /\ \A k \in 1..(Len(tips_block) - 1) :
         tips_block[k + 1] = Tok("tip", NonBlankLine(raw, k), <<>>)

\* C11 as stated: for every non-empty text of the service the tips block
\* holds one paragraph per non-blank line, stripped and in order, and at
\* least one paragraph.
C11_NonEmptyText ==
    TipsDone /\ completion.kind = "text" /\ completion.text # <<>> =>
        ParagraphPerLine(completion.text)

\* C11 amended: for every text of the service that has a non-blank line the
\* tips block holds one paragraph per non-blank line, stripped and in
\* order, and at least one paragraph.
C11_TipParagraphs ==
    TipsDone /\ completion.kind = "text" /\ NonBlankStarts(completion.text) # {} =>
        ParagraphPerLine(completion.text)

\* the text "Tip one\n\nTip two\nTip three" gave three paragraphs
C11_Witness ==
    /\ completion.text = <<"Tip one", "\n", "\n", "Tip two", "\n", "Tip three">>
    /\ tips_block = <<Tok("tips_heading", <<variant>>, <<>>),
                      Tok("tip", <<"Tip one">>, <<>>),
                      Tok("tip", <<"Tip two">>, <<>>),
                      Tok("tip", <<"Tip three">>, <<>>)>>

\* the row of category c, slot j, in a document whose charts start after
\* position at
BarAt(doc, at, c, j) == doc[at + (c - 1) * 5 + 1 + j]

\* the paragraph of category c in a document whose charts start after at
ParagraphAt(doc, at, c) == doc[at + 17 + c]

ParagraphTags == <<"p1", "p2", "p3">>

\* charts and narrative of doc show the drawn values, slot by slot
ShowsDrawnValues(doc, at) ==
    \A c \in 1..3 :
        /\ ParagraphAt(doc, at, c).tag = ParagraphTags[c]
        /\ Len(ParagraphAt(doc, at, c).n) = 3
        /\ \A j \in 1..3 :
             /\ BarAt(doc, at, c, j).tag = "bar"
             /\ BarAt(doc, at, c, j).s[1] = MetricLabels(variant)[c][j]
             /\ BarAt(doc, at, c, j).n
                  = <<chart_metrics[c].values[j], chart_metrics[c].values[j]>>
             /\ ParagraphAt(doc, at, c).n[j] = chart_metrics[c].values[j]

\* C12: paragraph c of the narrative holds the three values of category c
\* in slot order, and they are the values drawn for the request and shown
\* by the chart row of the same category and slot, in the response and in
\* the emailed document.
C12_NarrativeByPosition ==
    Finished /\ status = 200 =>
        /\ ShowsDrawnValues(response.html, 1)
        /\ ShowsDrawnValues(email_html, 18)

\* a request whose first category drew 70, 85, 90
C12_Witness ==
    /\ Finished /\ status = 200
    /\ chart_metrics[1].values = <<70, 85, 90>>
    /\ response.html[19].n = <<70, 85, 90>>
    /\ response.html[3].n = <<70, 70>> /\ response.html[4].n = <<85, 85>>

StepNames == <<"idle", "extract", "age", "metrics", "render", "tips", "email", "done">>

StepIndex(p) == CHOOSE i \in 1..Len(StepNames) : StepNames[i] = p

\* the handler moves to the next step, or leaves through its except clause
InOrder == pc' # pc => pc' = "done" \/ StepIndex(pc') = StepIndex(pc) + 1

\* the mail transport is used by the email step only, after the completion
\* step, with the tips block in the message, and the response follows
MailAfterTips ==
    smtpCalls' # smtpCalls \/ mailbox' # mailbox =>
        /\ pc = "email" /\ tipsOutcome # "none" /\ tips_block # <<>>
        /\ completionCalls = (IF Truthy(client) THEN 1 ELSE 0)
        /\ pc' = "done" /\ status' = 200
        /\ \A i \in (Len(mailbox) + 1)..Len(mailbox') :
             SubSeq(mailbox'[i].payload, Len(mailbox'[i].payload) - Len(tips_block),
                    Len(mailbox'[i].payload) - 1) = tips_block

\* C14: the steps run in their fixed order; mail is sent only by the email
\* step, after the completion step and with its tips block, and right
\* before the response; a request that ends with status 500 has opened no
\* mail connection and sent no message.
C14_EmailLast ==
    /\ [](status = 500 => smtpCalls = 0 /\ mailbox = <<>>)
    /\ [][InOrder /\ MailAfterTips]_vars

\* a request that failed after the completion call, without any mail
C14_Witness ==
    /\ Finished /\ status = 500 /\ completionCalls = 1 /\ sendOutcome = "encode_error"
    /\ smtpCalls = 0 /\ mailbox = <<>>

\* the two requests of the process
Frames == {Running, parked}

\* the configuration the process started with
Startup == module_configuration(env)

\* r's body is one the handler answers with status 500
Rejected(r) ==
    LET f == ExtractFields(r.body.data)
    IN  \/ r.body.kind # "object"
        \/ compute_age(f["dob"], today).exc # ""
        \/ SummaryRaises(variant, f["industry"], f["challenge"]) # ""
        \/ /\ Truthy(Startup.SMTP_PASSWORD)
           /\ \E k \in KeySet : Str(f[k]) = Surrogate

\* the narrative of r's own body, age and draws, for some opening
OwnSummary(r, doc) ==
    LET f == ExtractFields(r.body.data)
    IN  \E choice \in 1..3 :
            doc = build_dynamic_summary(variant, compute_age(f["dob"], today).v,
                                        f["experience"], f["industry"], f["country"],
                                        r.chart_metrics, f["challenge"], choice).html

\* the tips block of the answer r's own completion call got
OwnTips(r) == TipsBlock(variant, get_openai_response(Startup.client, r.completion))

\* the result of a finished request comes from its own body, draws and
\* collaborator outcomes and from the start-up configuration
OwnResult(r) ==
    /\ r.status = (IF Rejected(r) THEN 500 ELSE 200)
    /\ r.status = 500 => r.response = ErrorBody
    /\ r.status = 200 =>
         LET f == ExtractFields(r.body.data)
             chart == generate_chart_html(r.chart_metrics)
         IN  /\ r.response.kind = "html_result"
             /\ r.tips_block = OwnTips(r)
             /\ OwnSummary(r, r.summary_html)
             /\ r.response.html = title(variant) \o chart \o r.summary_html
                                  \o OwnTips(r) \o footer(variant)
             /\ r.email_html = EmailHeading(variant) \o details_html(variant, f)
                               \o r.response.html
             /\ r.completionCalls = (IF Truthy(Startup.client) THEN 1 ELSE 0)
             /\ r.smtpCalls = (IF Truthy(Startup.SMTP_PASSWORD) THEN 1 ELSE 0)
             /\ r.sendOutcome = "ok" =>
                  \E i \in 1..Len(mailbox) :
                      /\ mailbox[i].payload = r.email_html
                      /\ mailbox[i].Subject = Subject(variant, f["fullName"])

\* every message in the mailbox is the email document of a request whose
\* send succeeded, and there is one message per such request
OwnMail ==
    /\ \A i \in 1..Len(mailbox) :
         \E r \in Frames : r.sendOutcome = "ok" /\ mailbox[i].payload = r.email_html
    /\ Len(mailbox) = (IF Running.sendOutcome = "ok" THEN 1 ELSE 0)
                      + (IF parked.sendOutcome = "ok" THEN 1 ELSE 0)

\* C13: a step of a request, and a switch between the two requests, leave
\* the process configuration as it was at start-up; under every
\* interleaving each finished request has the status, response document and
\* emailed document of its own body, draws and collaborator outcomes.
C13_Independent ==
    /\ [](/\ client = Startup.client
          /\ SMTP_PASSWORD = Startup.SMTP_PASSWORD
          /\ \A r \in Frames : r.pc = "done" => OwnResult(r)
          /\ OwnMail)
    /\ [][client' = client /\ SMTP_PASSWORD' = SMTP_PASSWORD /\ env' = env]_vars

\* both requests have finished, one with a delivered report of a full body
\* and high draws, the other with status 200 for an empty body and low
\* draws after a failed send
C13_Witness ==
    /\ pc = "done" /\ parked.pc = "done"
    /\ body = FullBody(variant) /\ chart_metrics = HighMetrics(variant)
    /\ sendOutcome = "ok" /\ status = 200
    /\ parked.body = EmptyBody /\ parked.chart_metrics = LowMetrics(variant)
    /\ parked.sendOutcome = "connect_error" /\ parked.status = 200
    /\ Len(mailbox) = 1

====
